---------------------------- MODULE Spec2Model ----------------------------
(***************************************************************************)
(* A model of the signal generator of src/src/signal.rs: SignalGenerator   *)
(* (carrier phase, modulation phase, multitone phases), its single-sample  *)
(* step next_sample, the multitone step next_multitone_sample and the      *)
(* block driver generate_block.                                            *)
(*                                                                         *)
(* Numbers.  The code computes in f64; the model computes the same         *)
(* expressions on a lattice of reals:                                      *)
(*   - an angle is an integer number of units of pi/6/Tick; a tick is      *)
(*     pi/6 (PI == 6 * Tick);                                              *)
(*   - a frequency (frequency, sample_rate, mod_freq, multitone_spacing,   *)
(*     the FM deviation) is an integer number of Hz;                       *)
(*   - a dimensionless real (AM index, duty cycle, amplitude, I and Q) is  *)
(*     <<a, b, e>>, standing for (a + b*sqrt(3)) / Scale + e / Fine; an    *)
(*     input (AM index, duty cycle) is an integer number of 1/Scale;       *)
(*   - the PM index is an angle (radians in the code);                     *)
(*   - cos and sin of a whole number of ticks are exact, <<a, b, 0>>; cos  *)
(*     and sin of another angle are rounded to 1/Fine, <<0, 0, e>>.        *)
(* Every configured increment is a whole number of ticks, and the input    *)
(* sets below are chosen so that every division of the code is exact on    *)
(* the lattice.  The only angles off the ticks are the tone phases drawn   *)
(* in Random mode, which keep their fraction of a tick for ever.           *)
(*                                                                         *)
(* Rounding.  Every comparison of the code is strict (phase > 2.0 * PI,    *)
(* mod_phase < mod_strength * 2.0 * PI).  Where the exact value of a sum   *)
(* is the threshold it is compared with, the f64 sum is the threshold or   *)
(* a neighbour of it, and the branch the code takes is decided by the      *)
(* rounding of the f64 operations that led there, which the lattice does   *)
(* not have.  Each call therefore takes a second input, round, that says   *)
(* how those sums came out: whether a phase whose exact value is 2*pi came *)
(* out above 2.0 * PI (and is wrapped to just above 0, 0 on the lattice)   *)
(* or not (and is kept), whether a modulation phase whose exact value is   *)
(* the ON threshold of the pulse came out below it, and whether an FM      *)
(* frequency whose exact value is 0 came out negative.  A phase the model  *)
(* holds at 2*pi may itself stand just above 2.0 * PI in f64 (the single   *)
(* subtraction of a sum near 4*pi leaves it there), so the comparison has  *)
(* both outcomes under a zero increment too.  round is read nowhere else:  *)
(* off the thresholds the model is the exact computation.                  *)
(* The specifications run every call under every round that matters to     *)
(* it, the one the f64 computation takes among them; two generators that   *)
(* execute the same f64 operations are given the same round.               *)
(*                                                                         *)
(* Random numbers.  StdRng is ChaCha12 keyed from the seed; the model      *)
(* does not compute the cipher.  Draws holds, for the seeds 0 and 1, the   *)
(* first eight values of random_range(0.0..2.0 * PI) after                 *)
(* seed_from_u64(seed), rounded to the angle unit; no input reads more.    *)
(***************************************************************************)
EXTENDS Integers, Sequences, FiniteSets

(***************************************************************************)
(* Program constants and the resolution of the lattice.                    *)
(***************************************************************************)
\* The angle units in a tick of pi/6.
Tick == 1000000

\* std::f64::consts::PI.
PI == 6 * Tick

TwoPi == 2 * PI

\* The resolution of dimensionless f64 values on the lattice: 1.0 is Scale.
Scale == 48

\* The resolution of dimensionless f64 values off the lattice: 1.0 is Fine.
Fine == 1000000

(***************************************************************************)
(* Bounds of the model.                                                    *)
(***************************************************************************)
\* Samples a generator produces in a behaviour of Spec, SpecTones, SpecTwin.
MaxSamples == 3

\* Samples of the one block of a behaviour of SpecBlock.
MaxBlock == 6

(***************************************************************************)
(* State.                                                                  *)
(*   gen      the SignalGenerator                                          *)
(*   calls    samples gen has produced                                     *)
(*   op       the last operation: "new", "next_sample", "generate_block"   *)
(*   cfg      the SignalParams of the last operation                       *)
(*   round    how the f64 sums of each call of the last operation came out *)
(*            where they were on a threshold, one entry per call           *)
(*   pre      gen before the last operation                                *)
(*   out      the samples the last operation returned, in order            *)
(*   states   gen after each next_sample call of the last operation        *)
(*   inited   the tone phases the last operation assigned when it          *)
(*            (re-)initialized them, before their first advance; << >>     *)
(*            when it did not                                              *)
(*   hist     whether every phase increment applied by a non-multitone     *)
(*            call so far was below 2*pi (below) and not negative (nonneg) *)
(*   changed  the fields among mod_type, frequency, sample_rate in which   *)
(*            cfg differs from the configuration of the operation before   *)
(*   tones    the tone_count of every multitone operation so far, in order *)
(*   twin     a second SignalGenerator, fed the same configurations        *)
(*   twinOut  the samples twin returned for the last operation of gen      *)
(*   lag      samples twin has still to produce to catch up with gen       *)
(*   chunks   how twin caught up: one entry per call, 0 for next_sample    *)
(*            and n for generate_block(n)                                  *)
(***************************************************************************)
VARIABLES gen, calls, op, cfg, round, pre, out, states, inited, hist,
          changed, tones, twin, twinOut, lag, chunks

(***************************************************************************)
(* Trigonometry.                                                           *)
(***************************************************************************)
\* cos of k*pi/6, k = 0..11, as <<a, b>> for (a + b*sqrt(3)) / Scale.
CosTable ==
    << <<48, 0>>, <<0, 24>>, <<24, 0>>, <<0, 0>>, <<-24, 0>>, <<0, -24>>,
       <<-48, 0>>, <<0, -24>>, <<-24, 0>>, <<0, 0>>, <<24, 0>>, <<0, 24>> >>

\* The fractions of a tick of the angles in Draws, seed 0 first.
Fractions ==
    << 773361, 281522, 310136, 9911,
       146048, 263843, 624363, 524561,
       690937, 294827, 135697, 107033,
       54621, 551233, 663294, 502100 >>

\* cos of (k + f / Tick) * pi/6 in 1/Fine, k = 0..11, for each f of
\* Fractions in turn.
CosFine ==
    << << 919130, 599012, 118390, -393955, -800740, -992967,
          -919130, -599012, -118390, 393955, 800740, 992967 >>,
       << 989156, 783198, 367383, -146871, -621772, -930070,
          -989156, -783198, -367383, 146871, 621772, 930070 >>,
       << 986844, 773795, 353408, -161674, -633436, -935469,
          -986844, -773795, -353408, 161674, 633436, 935469 >>,
       << 999987, 863419, 495499, -5189, -504487, -868608,
          -999987, -863419, -495499, 5189, 504487, 868608 >>,
       << 997078, 825296, 432378, -76396, -564700, -901693,
          -997078, -825296, -432378, 76396, 564700, 901693 >>,
       << 990473, 788920, 375977, -137709, -614496, -926629,
          -990473, -788920, -375977, 137709, 614496, 926629 >>,
       << 947037, 659597, 195417, -321124, -751620, -980720,
          -947037, -659597, -195417, 321124, 751620, 980720 >>,
       << 962518, 697955, 246376, -271219, -716142, -969174,
          -962518, -697955, -246376, 271219, 716142, 969174 >>,
       << 935270, 633001, 161120, -353934, -774151, -986935,
          -935270, -633001, -161120, 353934, 774151, 986935 >>,
       << 988108, 778848, 360895, -153759, -627213, -932606,
          -988108, -778848, -360895, 153759, 627213, 932606 >>,
       << 997477, 828345, 437258, -70991, -560219, -899336,
          -997477, -828345, -437258, 70991, 560219, 899336 >>,
       << 998430, 836659, 450706, -56013, -547724, -892672,
          -998430, -836659, -450706, 56013, 547724, 892672 >>,
       << 999591, 851373, 475031, -28596, -524560, -879969,
          -999591, -851373, -475031, 28596, 524560, 879969 >>,
       << 958636, 687886, 232818, -284634, -725819, -972520,
          -958636, -687886, -232818, 284634, 725819, 972520 >>,
       << 940295, 644139, 175387, -340360, -764908, -984500,
          -940295, -644139, -175387, 340360, 764908, 984500 >>,
       << 965641, 706329, 257757, -259881, -707884, -966210,
          -965641, -706329, -257757, 259881, 707884, 966210 >> >>

\* f64::cos of an angle (any integer: cos is 2*pi periodic): exact on a
\* whole number of ticks, rounded to 1/Fine on an angle that holds one of
\* Fractions.
Cos(theta) ==
    LET k == (theta % TwoPi) \div Tick
        f == theta % Tick
    IN  IF f = 0
        THEN << CosTable[k + 1][1], CosTable[k + 1][2], 0 >>
        ELSE LET j == CHOOSE i \in 1..Len(Fractions) : Fractions[i] = f
             IN  << 0, 0, CosFine[j][k + 1] >>

\* f64::sin of an angle: sin(x) = cos(x - pi/2).
Sin(theta) == Cos(theta - (PI \div 2))

\* The rational part of a lattice real; the whole value when the other
\* parts are 0, as they are for cos of the modulation phase (a multiple of
\* pi/3).
Rat(x) == x[1]

\* r * x for a dimensionless r (in 1/Scale) and a real x.
Times(r, x) ==
    << (r * x[1]) \div Scale, (r * x[2]) \div Scale, (r * x[3]) \div Scale >>

\* x + y of reals.
Plus(x, y) == << x[1] + y[1], x[2] + y[2], x[3] + y[3] >>

\* 0.0.
Zero == <<0, 0, 0>>

(***************************************************************************)
(* Types of src/src/signal.rs.                                             *)
(***************************************************************************)
ModulationType == {"CW", "AM", "FM", "PM", "Pulse", "Multitone"}

MultitonePhase == {"Zero", "Random", "Schroeder"}

\* SignalGenerator::new(): every phase 0, no tone phases.
new == [phase |-> 0, mod_phase |-> 0, multitone_phases |-> << >>]

\* Complex::new(re, im).
Complex(re, im) == [re |-> re, im |-> im]

\* Complex::from_polar(r, theta) = (r cos theta, r sin theta).
from_polar(r, theta) == Complex(Times(r, Cos(theta)), Times(r, Sin(theta)))

(***************************************************************************)
(* The outcome of the f64 sums of one call whose exact value is on the     *)
(* threshold of the comparison that follows:                               *)
(*   mod_above    self.mod_phase, exactly 2*pi, is above 2.0 * PI          *)
(*                (line 106)                                               *)
(*   mod_below    self.mod_phase, exactly mod_strength * 2*pi, is below    *)
(*                mod_strength * 2.0 * PI (line 134)                       *)
(*   freq_neg     current_freq of FM, exactly 0, is below 0.0 (line 127)   *)
(*   phase_above  self.phase, exactly 2*pi, is above 2.0 * PI (line 146)   *)
(*   tones_above  the tones i (1-indexed) whose phase, exactly 2*pi, is    *)
(*                above 2.0 * PI (line 219)                                *)
(* A phase that is not advanced can stand above 2.0 * PI already.         *)
(***************************************************************************)
\* Every sum comes out as its exact value.
Exact ==
    [mod_above |-> FALSE, mod_below |-> FALSE, freq_neg |-> FALSE,
     phase_above |-> FALSE, tones_above |-> {}]

(***************************************************************************)
(* The phase wrap of lines 106-108, 146-148 and 219-221: one subtraction   *)
(* of 2*pi when the phase is strictly greater than 2*pi.  above: the f64   *)
(* value of a phase that is exactly 2*pi is greater than 2.0 * PI.         *)
(***************************************************************************)
\* Mutant: the wrap is a full reduction modulo 2*pi.
WrapPhaseModulo(p, above) == p % TwoPi

\* Mutant: the wrap is left out.
WrapPhaseNever(p, above) == p

\* Mutant: the wrap subtracts pi.
WrapPhaseHalfTurn(p, above) ==
    IF p > TwoPi \/ (p = TwoPi /\ above) THEN p - PI ELSE p

WrapPhase(p, above) ==
    IF p > TwoPi \/ (p = TwoPi /\ above) THEN p - TwoPi ELSE p

(***************************************************************************)
(* StdRng.  seed_from_u64 builds the generator from the seed alone         *)
(* (os_entropy, the environment's entropy source, is not read); each       *)
(* random_range(0.0..2.0 * PI) advances the generator and returns an angle *)
(* in [0, 2*pi).  A generator is the seed it was built from and the number *)
(* of values drawn from it.                                                *)
(***************************************************************************)
\* The seeds the callers pass.
Seeds == {0, 1}

\* Draws[seed][k]: the k-th value of random_range(0.0..2.0 * PI) after
\* seed_from_u64(seed), k = 1..8 (4.593721072436707 rad is the first of
\* seed 0, 6.121360218739032 rad the first of seed 1).
Draws ==
    [seed \in Seeds |->
        IF seed = 0
        THEN << 8773361, 9281522, 310136, 7009911,
                3146048, 9263843, 2624363, 9524561 >>
        ELSE << 11690937, 8294827, 5135697, 2107033,
                3054621, 11551233, 4663294, 8502100 >>]

\* Mutant: the generator is seeded from the operating system.
seed_from_os(seed, os_entropy) == [seed |-> os_entropy, drawn |-> 0]

\* Line 186: StdRng::seed_from_u64(params.seed).
seed_from_u64(seed, os_entropy) == [seed |-> seed, drawn |-> 0]

\* The generator after one draw.
RngNext(rng) == [rng EXCEPT !.drawn = rng.drawn + 1]

\* Line 188: the value of the draw that left the generator in rng.
random_range(rng) == Draws[rng.seed][rng.drawn]

\* The loop of lines 187-189: count draws, in tone order.
RECURSIVE RandomPhases(_, _)
RandomPhases(rng, count) ==
    IF count = 0 THEN << >>
    ELSE LET next == RngNext(rng)
         IN  << random_range(next) >> \o RandomPhases(next, count - 1)

\* Mutant: phi = -PI * k * k / n.
SchroederPhaseSquared(k, n) == ((0 - PI) * k * k) \div n

\* Line 196: phi = -PI * k * (k - 1) / n, k 0-indexed.
SchroederPhase(k, n) == ((0 - PI) * k * (k - 1)) \div n

\* Lines 174-200: the tone phases a (re-)initialization assigns.
InitPhases(params, os_entropy) ==
    LET n == params.multitone_count
    IN  CASE params.multitone_phase = "Zero" -> [k \in 1..n |-> 0]
          [] params.multitone_phase = "Random" ->
                RandomPhases(seed_from_u64(params.seed, os_entropy), n)
          [] params.multitone_phase = "Schroeder" ->
                [k \in 1..n |-> SchroederPhase(k - 1, n)]

\* Mutant: the tone phases are initialized on every call.
NeedsInitAlways(self, params) == TRUE

\* Mutant: the tone phases are initialized on the first call only.
NeedsInitWhenEmpty(self, params) == self.multitone_phases = << >>

\* Line 173: the tone phases are (re-)initialized on this call.
NeedsInit(self, params) == Len(self.multitone_phases) # params.multitone_count

\* Lines 208-217 for tone k (0-indexed; i is k + 1): phase_inc.
\* center_offset = (n - 1) / 2 is a half-integer, so the tone frequency is
\* carried doubled.
TonePhaseIncrement(k, params) ==
    LET center_offset2 == params.multitone_count - 1
        freq_offset2 == (2 * k - center_offset2) * params.multitone_spacing
        tone_freq2 == 2 * params.frequency + freq_offset2
    IN  (TwoPi * tone_freq2) \div (2 * params.sample_rate)

\* Mutant: a tone phase is advanced and never wrapped.
TonePhaseUnwrapped(phase, k, params, above) ==
    phase + TonePhaseIncrement(k, params)

\* Lines 218-221 for tone k (0-indexed): the phase after its advance.
TonePhase(phase, k, params, above) ==
    LET phase_inc == TonePhaseIncrement(k, params)
    IN  WrapPhase(phase + phase_inc, above)

\* The sum over the tones of f(phase), f being Cos or Sin.
RECURSIVE SumCos(_)
SumCos(phases) ==
    IF phases = << >> THEN Zero
    ELSE Plus(Cos(Head(phases)), SumCos(Tail(phases)))

RECURSIVE SumSin(_)
SumSin(phases) ==
    IF phases = << >> THEN Zero
    ELSE Plus(Sin(Head(phases)), SumSin(Tail(phases)))

\* Mutant: the sum is not normalized.
ToneScaleUnnormalized(params) == Scale

\* Line 230: scale = 1.0 / multitone_count.
ToneScale(params) == Scale \div params.multitone_count

\* Mutant: the random stream of an initialization goes on from where the
\* tone phases the generator holds left it.
next_multitone_sample_keeps_rng(self, params, os_entropy, rnd) ==
    LET carried == [seed_from_u64(params.seed, os_entropy) EXCEPT
                      !.drawn = Len(self.multitone_phases)]
        start == IF ~NeedsInit(self, params) THEN self.multitone_phases
                 ELSE IF params.multitone_phase = "Random"
                      THEN RandomPhases(carried, params.multitone_count)
                      ELSE InitPhases(params, os_entropy)
        phases == [i \in 1..Len(start) |->
                     TonePhase(start[i], i - 1, params,
                               i \in rnd.tones_above)]
        scale == ToneScale(params)
    IN  [gen |-> [self EXCEPT !.multitone_phases = phases],
         sample |-> Complex(Times(scale, SumCos(phases)),
                            Times(scale, SumSin(phases)))]

\* Mutant: on a length mismatch the tone phases are resized, the phases of
\* the tones that stay being kept.
next_multitone_sample_resize(self, params, os_entropy, rnd) ==
    LET init == InitPhases(params, os_entropy)
        old == self.multitone_phases
        start == [i \in 1..params.multitone_count |->
                    IF i <= Len(old) THEN old[i] ELSE init[i]]
        phases == [i \in 1..Len(start) |->
                     TonePhase(start[i], i - 1, params,
                               i \in rnd.tones_above)]
        scale == ToneScale(params)
    IN  [gen |-> [self EXCEPT !.multitone_phases = phases],
         sample |-> Complex(Times(scale, SumCos(phases)),
                            Times(scale, SumSin(phases)))]

\* next_multitone_sample: (re-)initialize on a length mismatch, advance
\* every tone, sum the phasors and normalize.
next_multitone_sample(self, params, os_entropy, rnd) ==
    LET start == IF NeedsInit(self, params)
                 THEN InitPhases(params, os_entropy)
                 ELSE self.multitone_phases
        phases == [i \in 1..Len(start) |->
                     TonePhase(start[i], i - 1, params,
                               i \in rnd.tones_above)]
        scale == ToneScale(params)
    IN  [gen |-> [self EXCEPT !.multitone_phases = phases],
         sample |-> Complex(Times(scale, SumCos(phases)),
                            Times(scale, SumSin(phases)))]

\* Line 104: mod_phase_increment = 2.0 * PI * mod_freq / sample_rate.
ModPhaseIncrement(params) ==
    (TwoPi * params.mod_freq) \div params.sample_rate

\* Mutant: FM swings the frequency by twice the deviation.
CurrentFreqTwiceDeviation(params, mod_phase) ==
    IF params.mod_type = "FM"
    THEN params.frequency
         + (2 * params.mod_strength * Rat(Cos(mod_phase))) \div Scale
    ELSE params.frequency

\* Lines 111-128: the instantaneous frequency, given the updated modulation
\* phase; only FM moves it off the carrier frequency.
CurrentFreq(params, mod_phase) ==
    IF params.mod_type = "FM"
    THEN params.frequency
         + (params.mod_strength * Rat(Cos(mod_phase))) \div Scale
    ELSE params.frequency

\* Mutant: the PM deviation is accumulated into the carrier phase.
PhaseIncrementWithPM(params, mod_phase) ==
    (TwoPi * CurrentFreq(params, mod_phase)) \div params.sample_rate
    + (IF params.mod_type = "PM"
       THEN (params.mod_strength * Rat(Cos(mod_phase))) \div Scale
       ELSE 0)

\* Line 144: phase_increment = 2.0 * PI * current_freq / sample_rate.
PhaseIncrement(params, mod_phase) ==
    (TwoPi * CurrentFreq(params, mod_phase)) \div params.sample_rate

\* Line 134: mod_strength * 2.0 * PI, the modulation phase below which the
\* pulse is ON.
PulseThreshold(params) == (params.mod_strength * 2 * PI) \div Scale

\* Mutant: the pulse is ON where the code has it OFF.
AmplitudeFactorInverted(params, mod_phase, below) ==
    CASE params.mod_type = "AM" ->
            Scale + (params.mod_strength * Rat(Cos(mod_phase))) \div Scale
      [] params.mod_type = "Pulse" ->
            IF \/ mod_phase < PulseThreshold(params)
               \/ (mod_phase = PulseThreshold(params)
                      /\ mod_phase > 0 /\ below)
            THEN 0 ELSE Scale
      [] OTHER -> Scale

\* Lines 112-139: the amplitude factor, given the updated modulation phase.
\* below: the f64 value of a modulation phase that is exactly the threshold
\* is less than it; a modulation phase of 0.0 is not below a threshold of
\* 0.0.
AmplitudeFactor(params, mod_phase, below) ==
    CASE params.mod_type = "AM" ->
            Scale + (params.mod_strength * Rat(Cos(mod_phase))) \div Scale
      [] params.mod_type = "Pulse" ->
            IF \/ mod_phase < PulseThreshold(params)
               \/ (mod_phase = PulseThreshold(params)
                      /\ mod_phase > 0 /\ below)
            THEN Scale ELSE 0
      [] OTHER -> Scale

\* Lines 151-155: the angle of the emitted sample; PM adds its deviation.
FinalPhase(params, phase, mod_phase) ==
    IF params.mod_type = "PM"
    THEN phase + (params.mod_strength * Rat(Cos(mod_phase))) \div Scale
    ELSE phase

\* Lines 104-108: the modulation phase after its advance.
ModPhase(self, params, rnd) ==
    LET mod_phase_increment == ModPhaseIncrement(params)
    IN  WrapPhase(self.mod_phase + mod_phase_increment, rnd.mod_above)

\* Lines 144-148: the carrier phase after its advance, given the updated
\* modulation phase.
CarrierPhase(self, params, mod_phase, rnd) ==
    LET phase_increment == PhaseIncrement(params, mod_phase)
    IN  WrapPhase(self.phase + phase_increment, rnd.phase_above)

\* Mutant: a non-multitone call drops the tone phases.
next_sample_drops_tones(self, params, os_entropy, rnd) ==
    IF params.mod_type = "Multitone"
    THEN next_multitone_sample(self, params, os_entropy, rnd)
    ELSE
    LET mod_phase == ModPhase(self, params, rnd)
        amplitude_factor == AmplitudeFactor(params, mod_phase, rnd.mod_below)
        phase == CarrierPhase(self, params, mod_phase, rnd)
        final_phase == FinalPhase(params, phase, mod_phase)
    IN  [gen |-> [phase |-> phase, mod_phase |-> mod_phase,
                  multitone_phases |-> << >>],
         sample |-> from_polar(amplitude_factor, final_phase)]

\* Mutant: a call with mod_freq = 0 restarts the modulation phase at 0.
next_sample_restarts_mod_phase(self, params, os_entropy, rnd) ==
    IF params.mod_type = "Multitone"
    THEN next_multitone_sample(self, params, os_entropy, rnd)
    ELSE
    LET mod_phase == IF params.mod_freq = 0 THEN 0
                     ELSE ModPhase(self, params, rnd)
        amplitude_factor == AmplitudeFactor(params, mod_phase, rnd.mod_below)
        phase == CarrierPhase(self, params, mod_phase, rnd)
        final_phase == FinalPhase(params, phase, mod_phase)
    IN  [gen |-> [self EXCEPT !.phase = phase, !.mod_phase = mod_phase],
         sample |-> from_polar(amplitude_factor, final_phase)]

\* Mutant: the carrier phase is assigned its increment, not advanced by it.
next_sample_assigns(self, params, os_entropy, rnd) ==
    IF params.mod_type = "Multitone"
    THEN next_multitone_sample(self, params, os_entropy, rnd)
    ELSE
    LET mod_phase == ModPhase(self, params, rnd)
        amplitude_factor == AmplitudeFactor(params, mod_phase, rnd.mod_below)
        phase == CarrierPhase([self EXCEPT !.phase = 0], params, mod_phase,
                              rnd)
        final_phase == FinalPhase(params, phase, mod_phase)
    IN  [gen |-> [self EXCEPT !.phase = phase, !.mod_phase = mod_phase],
         sample |-> from_polar(amplitude_factor, final_phase)]

\* next_sample, lines 97-159.
next_sample(self, params, os_entropy, rnd) ==
    IF params.mod_type = "Multitone"
    THEN next_multitone_sample(self, params, os_entropy, rnd)
    ELSE
    LET mod_phase == ModPhase(self, params, rnd)
        amplitude_factor == AmplitudeFactor(params, mod_phase, rnd.mod_below)
        phase == CarrierPhase(self, params, mod_phase, rnd)
        final_phase == FinalPhase(params, phase, mod_phase)
    IN  [gen |-> [self EXCEPT !.phase = phase, !.mod_phase = mod_phase],
         sample |-> from_polar(amplitude_factor, final_phase)]

\* generate_block, lines 244-250: count calls of next_sample, each sample
\* pushed onto the block.  states holds the generator after each call;
\* rounds holds the outcome of the f64 sums of each call, in order.
RECURSIVE BlockLoop(_, _, _, _, _, _, _)
BlockLoop(self, params, remaining, block, sts, os_entropy, rounds) ==
    IF remaining = 0
    THEN [gen |-> self, block |-> block, states |-> sts]
    ELSE LET r == next_sample(self, params, os_entropy, Head(rounds))
         IN  BlockLoop(r.gen, params, remaining - 1,
                       Append(block, r.sample), Append(sts, r.gen),
                       os_entropy, Tail(rounds))

\* Mutant: the loop runs one time less.
generate_block_one_less(self, params, count, os_entropy, rounds) ==
    BlockLoop(self, params, IF count > 1 THEN count - 1 ELSE count,
              << >>, << >>, os_entropy, rounds)

\* Mutant: every block starts from a generator just created.
generate_block_restarts(self, params, count, os_entropy, rounds) ==
    BlockLoop(new, params, count, << >>, << >>, os_entropy, rounds)

generate_block(self, params, count, os_entropy, rounds) ==
    BlockLoop(self, params, count, << >>, << >>, os_entropy, rounds)

(***************************************************************************)
(* The outcomes of the f64 sums that matter to a call: a field is FALSE    *)
(* (or empty) unless the exact value of its sum is on the threshold.       *)
(***************************************************************************)
\* The outcomes of a sum that is on its threshold when tie holds.
Outcomes(tie) == IF tie THEN BOOLEAN ELSE {FALSE}

\* The rounds of a call of next_sample on self.
Rounds(self, params, os_entropy) ==
    IF params.mod_type = "Multitone"
    THEN LET start == IF NeedsInit(self, params)
                      THEN InitPhases(params, os_entropy)
                      ELSE self.multitone_phases
             ties == { i \in 1..Len(start) :
                         start[i] + TonePhaseIncrement(i - 1, params)
                           = TwoPi }
         IN  { [Exact EXCEPT !.tones_above = above] : above \in SUBSET ties }
    ELSE UNION {
           LET mod_phase == ModPhase(self, params,
                                     [Exact EXCEPT !.mod_above = ma])
               inc == PhaseIncrement(params, mod_phase)
           IN  { [mod_above |-> ma, mod_below |-> mb, freq_neg |-> fn,
                  phase_above |-> pa, tones_above |-> {}] :
                   mb \in Outcomes(/\ params.mod_type = "Pulse"
                                   /\ mod_phase > 0
                                   /\ mod_phase = PulseThreshold(params)),
                   fn \in Outcomes(/\ params.mod_type = "FM"
                                   /\ CurrentFreq(params, mod_phase) = 0),
                   pa \in Outcomes(self.phase + inc = TwoPi) } :
           ma \in Outcomes(self.mod_phase + ModPhaseIncrement(params)
                             = TwoPi) }

\* The rounds of the count calls of a block on self, in order.
RECURSIVE BlockRounds(_, _, _, _)
BlockRounds(self, params, count, os_entropy) ==
    IF count = 0 THEN { << >> }
    ELSE UNION {
           { << r >> \o rest :
               rest \in BlockRounds(
                          next_sample(self, params, os_entropy, r).gen,
                          params, count - 1, os_entropy) } :
           r \in Rounds(self, params, os_entropy) }

(***************************************************************************)
(* Inputs: the configurations (SignalParams) the callers pass.             *)
(***************************************************************************)
Params(f, sr, mt, mf, ms, n, sp, ph, seed) ==
    [frequency |-> f, sample_rate |-> sr, mod_type |-> mt, mod_freq |-> mf,
     mod_strength |-> ms, multitone_count |-> n, multitone_spacing |-> sp,
     multitone_phase |-> ph, seed |-> seed]

\* mod_freq by kind and sample rate: 0.0 for CW, as the caller of main.rs
\* passes it; half the sample rate for the others, so that the modulation
\* phase advances by pi a call.
ModFreqs(mt, sr) == IF mt = "CW" THEN {0} ELSE {sr \div 2}

\* mod_strength by kind: AM index 1/2, FM deviation 3 Hz, PM index 2*pi/3,
\* duty cycle 3/4; 0.0 for CW.
Strengths(mt) ==
    CASE mt = "AM" -> {24}
      [] mt = "FM" -> {3}
      [] mt = "PM" -> {4 * Tick}
      [] mt = "Pulse" -> {36}
      [] OTHER -> {0}

\* The configurations of the kinds K with carrier frequency in F and sample
\* rate in SR; their multitone fields are those of the test, lines 264-274.
Tone(K, F, SR) ==
    UNION { UNION { { Params(f, sr, mt, mf, ms, 1, 0, "Zero", 0) :
                        f \in F,
                        mf \in ModFreqs(mt, sr), ms \in Strengths(mt) } :
                    sr \in SR } :
            mt \in K }

\* The non-multitone configurations with carrier frequency in F and sample
\* rate in SR.
SingleTone(F, SR) == Tone(ModulationType \ {"Multitone"}, F, SR)

\* The multitone configurations with tone count in N, spacing in SP and
\* seed in SD, at 3 Hz and 12 Hz sample rate; mod_freq and mod_strength are
\* 0.0 as the caller of main.rs passes them.
Multitone(N, SP, SD) ==
    { Params(3, 12, "Multitone", 0, 0, n, sp, ph, seed) :
        n \in N, sp \in SP, ph \in MultitonePhase, seed \in SD }

\* The environment's entropy source: what a generator seeded from the
\* operating system would read.  The code never reads it.
Entropy == {0, 1}

\* The entropy the single-generator specifications pass.
OsEntropy == CHOOSE e \in Entropy : TRUE

\* AM, FM and PM at 3 Hz and 12 Hz sample rate with mod_freq = 0.
ConstantModParams ==
    UNION { { Params(3, 12, mt, 0, ms, 1, 0, "Zero", 0) :
                ms \in Strengths(mt) } :
            mt \in {"AM", "FM", "PM"} }

\* Inputs of Spec: every single-tone kind at 0 Hz and 3 Hz, 6 Hz and 12 Hz
\* sample rate (FM sweeps 3 Hz either side: its phase increment is -pi,
\* -pi/2, 0, pi/2, pi or 2*pi), the three kinds with mod_freq = 0, and two
\* multitone configurations.
SpecParams ==
    SingleTone({0, 3}, {6, 12})
        \cup ConstantModParams
        \cup { Params(3, 12, "Multitone", 0, 0, 2, 4, "Zero", 0),
               Params(3, 12, "Multitone", 0, 0, 3, 4, "Schroeder", 0) }

\* Inputs of SpecTones: the multitone configurations with 2 and 3 tones,
\* and one CW configuration.
TonesParams ==
    Multitone({2, 3}, {0, 4}, {0, 1})
        \cup { Params(3, 12, "CW", 0, 0, 1, 0, "Zero", 0) }

\* Inputs of SpecBlock: single-tone kinds at the carrier frequencies that
\* divide the sample rate, and multitone with 1 to 4 tones.
BlockParams ==
    SingleTone({1, 2, 3, 4, 6}, {6, 12})
        \cup Multitone({1, 2, 3, 4}, {0, 4}, {0, 1})

\* Further inputs of SpecBlock: Pulse at 3 Hz with a modulation period of 2,
\* 3, 4 or 6 samples and duty cycle 0, 1/4, 1/2, 3/4 and 1.
PulseParams ==
    { Params(3, 6, "Pulse", mf, ms, 1, 0, "Zero", 0) :
        mf \in {1, 2, 3}, ms \in {0, 12, 24, 36, 48} }
    \cup { Params(3, 12, "Pulse", mf, ms, 1, 0, "Zero", 0) :
        mf \in {2, 3, 4, 6}, ms \in {0, 12, 24, 36, 48} }

\* Further inputs of SpecBlock, with a modulation period of 3 or 6 samples,
\* where cos of the modulation phase is 1/2 and -1/2 as well: AM and PM at
\* 3 Hz, and FM of deviation 2 Hz at 1 Hz, 2 Hz and 3 Hz.
SlowModParams ==
    { Params(3, sr, mt, 2, IF mt = "AM" THEN 24 ELSE 4 * Tick,
             1, 0, "Zero", 0) :
        sr \in {6, 12}, mt \in {"AM", "PM"} }
    \cup { Params(f, 6, "FM", 2, 2, 1, 0, "Zero", 0) : f \in {1, 2, 3} }

\* Further inputs of SpecBlock, with a phase increment of 2*pi or more: CW
\* at twice the sample rate, AM with mod_freq at twice the sample rate, and
\* two tones above the sample rate.
OverrangeParams ==
    { Params(12, 6, "CW", 0, 0, 1, 0, "Zero", 0),
      Params(3, 6, "AM", 12, 24, 1, 0, "Zero", 0),
      Params(15, 12, "Multitone", 0, 0, 2, 4, "Zero", 0) }

\* The value of cfg before the first call.
NoParams == Params(0, 0, "None", 0, 0, 0, 0, "None", 0)

vars == <<gen, calls, op, cfg, round, pre, out, states, inited, hist,
          changed, tones, twin, twinOut, lag, chunks>>

twinVars == <<twin, twinOut, lag, chunks>>

ghostVars == <<pre, states, inited, hist, changed, tones>>

Init ==
    /\ gen = new
    /\ calls = 0
    /\ op = "new"
    /\ cfg = NoParams
    /\ round = << >>
    /\ pre = new
    /\ out = << >>
    /\ states = << >>
    /\ inited = << >>
    /\ hist = [below |-> TRUE, nonneg |-> TRUE]
    /\ changed = {}
    /\ tones = << >>
    /\ twin = new
    /\ twinOut = << >>
    /\ lag = 0
    /\ chunks = << >>

\* The phase increments a call applied: the modulation phase increment and
\* the carrier phase increment computed from the modulation phase the call
\* left in the generator (after).
IncrementsOf(params, after) ==
    { ModPhaseIncrement(params), PhaseIncrement(params, after.mod_phase) }

\* The FM frequency of a call that left the generator in after was exactly
\* 0 and came out below 0.0.
CameOutNegative(params, after, rnd) ==
    /\ params.mod_type = "FM"
    /\ CurrentFreq(params, after.mod_phase) = 0
    /\ rnd.freq_neg

\* hist after an operation with configuration params that left the
\* generator in the states sts, one per call, under the rounds rounds.
HistAfter(h, params, sts, rounds) ==
    IF params.mod_type = "Multitone" THEN h
    ELSE LET incs == UNION { IncrementsOf(params, sts[i]) : i \in 1..Len(sts) }
         IN  [below |-> h.below /\ \A d \in incs : d < TwoPi,
              nonneg |-> /\ h.nonneg
                         /\ \A d \in incs : d >= 0
                         /\ \A i \in 1..Len(sts) :
                               ~CameOutNegative(params, sts[i], rounds[i])]

\* inited after an operation on generator self.
InitedBy(self, params, os_entropy) ==
    IF params.mod_type = "Multitone" /\ NeedsInit(self, params)
    THEN InitPhases(params, os_entropy)
    ELSE << >>

\* changed after an operation with configuration params.
ChangedBy(params) ==
    IF op = "new" THEN {}
    ELSE { fld \in {"mod_type", "frequency", "sample_rate"} :
            params[fld] # cfg[fld] }

\* tones after an operation with configuration params.
TonesAfter(params) ==
    IF params.mod_type = "Multitone"
    THEN Append(tones, params.multitone_count)
    ELSE tones

\* A caller takes one sample: generate_one is next_sample.
GenerateOne(params, os_entropy, rnd) ==
    /\ LET r == next_sample(gen, params, os_entropy, rnd)
       IN  /\ gen' = r.gen
           /\ out' = << r.sample >>
           /\ states' = << r.gen >>
           /\ hist' = HistAfter(hist, params, << r.gen >>, << rnd >>)
    /\ calls' = calls + 1
    /\ op' = "next_sample"
    /\ cfg' = params
    /\ round' = << rnd >>
    /\ pre' = gen
    /\ inited' = InitedBy(gen, params, os_entropy)
    /\ changed' = ChangedBy(params)
    /\ tones' = TonesAfter(params)
    /\ UNCHANGED twinVars

\* A caller takes a block of count samples, count >= 1.
GenerateBlock(params, count, os_entropy, rounds) ==
    /\ LET r == generate_block(gen, params, count, os_entropy, rounds)
       IN  /\ gen' = r.gen
           /\ out' = r.block
           /\ states' = r.states
           /\ hist' = HistAfter(hist, params, r.states, rounds)
    /\ calls' = calls + count
    /\ op' = "generate_block"
    /\ cfg' = params
    /\ round' = rounds
    /\ pre' = gen
    /\ inited' = InitedBy(gen, params, os_entropy)
    /\ changed' = ChangedBy(params)
    /\ tones' = TonesAfter(params)
    /\ UNCHANGED twinVars

\* Spec: any sequence of calls on one generator, MaxSamples samples in all.
Next ==
    \/ \E params \in SpecParams :
            /\ calls < MaxSamples
            /\ \E rnd \in Rounds(gen, params, OsEntropy) :
                    GenerateOne(params, OsEntropy, rnd)
    \/ \E params \in SpecParams, count \in 1..MaxSamples :
            /\ calls + count <= MaxSamples
            /\ \E rounds \in BlockRounds(gen, params, count, OsEntropy) :
                    GenerateBlock(params, count, OsEntropy, rounds)

Spec == Init /\ [][Next]_vars

\* SpecTones: the same, on the multitone inputs.
NextTones ==
    \/ \E params \in TonesParams :
            /\ calls < MaxSamples
            /\ \E rnd \in Rounds(gen, params, OsEntropy) :
                    GenerateOne(params, OsEntropy, rnd)
    \/ \E params \in TonesParams, count \in 1..MaxSamples :
            /\ calls + count <= MaxSamples
            /\ \E rounds \in BlockRounds(gen, params, count, OsEntropy) :
                    GenerateBlock(params, count, OsEntropy, rounds)

SpecTones == Init /\ [][NextTones]_vars

\* SpecBlock: one block of up to MaxBlock samples from a fresh generator,
\* as the caller of main.rs lines 525-526 takes it.
NextBlock ==
    \E params \in BlockParams \cup PulseParams \cup SlowModParams
                     \cup OverrangeParams,
       count \in 1..MaxBlock :
        /\ op = "new"
        /\ \E rounds \in BlockRounds(gen, params, count, OsEntropy) :
                GenerateBlock(params, count, OsEntropy, rounds)

SpecBlock == Init /\ [][NextBlock]_vars

\* Inputs of SpecTwin: every single-tone kind at 3 Hz and 12 Hz sample rate,
\* and the multitone configurations with 2 tones spaced 4 Hz.
TwinParams ==
    SingleTone({3}, {12}) \cup Multitone({2}, {4}, {0, 1})

\* Both generators take one sample with the same configuration; twin runs
\* under any value of the environment's entropy.
BothOne(params, e1, e2, rnd) ==
    /\ lag = 0
    /\ LET r == next_sample(gen, params, e1, rnd)
           t == next_sample(twin, params, e2, rnd)
       IN  /\ gen' = r.gen
           /\ out' = << r.sample >>
           /\ twin' = t.gen
           /\ twinOut' = << t.sample >>
    /\ calls' = calls + 1
    /\ op' = "next_sample"
    /\ cfg' = params
    /\ round' = << rnd >>
    /\ chunks' = << >>
    /\ UNCHANGED <<lag, ghostVars>>

\* Both generators take a block of count samples with the same
\* configuration.
BothBlock(params, count, e1, e2, rounds) ==
    /\ lag = 0
    /\ LET r == generate_block(gen, params, count, e1, rounds)
           t == generate_block(twin, params, count, e2, rounds)
       IN  /\ gen' = r.gen
           /\ out' = r.block
           /\ twin' = t.gen
           /\ twinOut' = t.block
    /\ calls' = calls + count
    /\ op' = "generate_block"
    /\ cfg' = params
    /\ round' = rounds
    /\ chunks' = << >>
    /\ UNCHANGED <<lag, ghostVars>>

\* gen takes a block of count samples; twin has count samples to produce
\* with the same configuration.
LeadBlock(params, count, e1, rounds) ==
    /\ lag = 0
    /\ LET r == generate_block(gen, params, count, e1, rounds)
       IN  /\ gen' = r.gen
           /\ out' = r.block
    /\ calls' = calls + count
    /\ op' = "lead"
    /\ cfg' = params
    /\ round' = rounds
    /\ lag' = count
    /\ twinOut' = << >>
    /\ chunks' = << >>
    /\ UNCHANGED <<twin, ghostVars>>

\* The rounds of the calls twin has still to make.
Pending == SubSeq(round, Len(round) - lag + 1, Len(round))

\* twin catches up by one next_sample call.
FollowOne(e2) ==
    /\ lag > 0
    /\ LET t == next_sample(twin, cfg, e2, Head(Pending))
       IN  /\ twin' = t.gen
           /\ twinOut' = Append(twinOut, t.sample)
    /\ lag' = lag - 1
    /\ chunks' = Append(chunks, 0)
    /\ UNCHANGED <<gen, calls, op, cfg, round, out, ghostVars>>

\* twin catches up by a generate_block call of count samples.
FollowBlock(count, e2) ==
    /\ count <= lag
    /\ LET t == generate_block(twin, cfg, count, e2, Pending)
       IN  /\ twin' = t.gen
           /\ twinOut' = twinOut \o t.block
    /\ lag' = lag - count
    /\ chunks' = Append(chunks, count)
    /\ UNCHANGED <<gen, calls, op, cfg, round, out, ghostVars>>

\* SpecTwin: two generators created together and fed the same
\* configurations, sample for sample.
NextTwin ==
    \/ \E params \in TwinParams, e2 \in Entropy :
            /\ calls < MaxSamples
            /\ \E rnd \in Rounds(gen, params, OsEntropy) :
                    BothOne(params, OsEntropy, e2, rnd)
    \/ \E params \in TwinParams, count \in 1..MaxSamples, e2 \in Entropy :
            /\ calls + count <= MaxSamples
            /\ \E rounds \in BlockRounds(gen, params, count, OsEntropy) :
                    BothBlock(params, count, OsEntropy, e2, rounds)
    \/ \E params \in TwinParams, count \in 1..MaxSamples :
            /\ calls + count <= MaxSamples
            /\ \E rounds \in BlockRounds(gen, params, count, OsEntropy) :
                    LeadBlock(params, count, OsEntropy, rounds)
    \/ \E e2 \in Entropy : FollowOne(e2)
    \/ \E count \in 1..MaxSamples, e2 \in Entropy : FollowBlock(count, e2)

SpecTwin == Init /\ [][NextTwin]_vars

\* The shape of the state; the modulation phase stays on multiples of pi/3
\* where its cosine is taken.
TypeOK ==
    /\ gen.phase \in Int /\ gen.mod_phase \in Int
    /\ cfg.mod_type # "Pulse" => gen.mod_phase % (2 * Tick) = 0
    /\ calls \in 0..(MaxSamples + MaxBlock)
    /\ Len(out) <= MaxSamples + MaxBlock
    /\ Len(round) = Len(out)
    /\ lag \in 0..MaxSamples

(***************************************************************************)
(* Properties of the block driver and of determinism, under SpecTwin.      *)
(***************************************************************************)
\* twin has caught up with the last block of gen by next_sample calls only.
OnlySingleCalls == \A i \in 1..Len(chunks) : chunks[i] = 0

\* C1: generate_block(config, n) returns exactly n samples, the i-th being
\* the sample the i-th of n successive next_sample calls with the same
\* configuration returns from the same starting state, and it leaves the
\* generator in the state those n calls leave.
BlockEqualsSuccessiveCalls ==
    (op = "lead" /\ OnlySingleCalls) =>
        /\ Len(out) = lag + Len(chunks)
        /\ Len(twinOut) = Len(chunks)
        /\ \A i \in 1..Len(twinOut) : out[i] = twinOut[i]
        /\ lag = 0 => gen = twin

\* C1 witness: after an earlier call, a multitone block of two samples has
\* been matched by two next_sample calls.
BlockEqualsSuccessiveCallsWitness ==
    /\ op = "lead" /\ lag = 0 /\ chunks = <<0, 0>>
    /\ calls = 3
    /\ cfg.mod_type = "Multitone"
    /\ gen.phase # 0

\* C2: split-invariance: from any generator state and for any fixed
\* configuration, generate_block for n samples followed by generate_block
\* for m samples returns, concatenated, the sequence one generate_block call
\* for n + m samples returns, and leaves the same generator state.
SplitInvariance ==
    (op = "lead" /\ lag = 0 /\ Len(chunks) = 2
        /\ chunks[1] > 0 /\ chunks[2] > 0) =>
        /\ Len(out) = chunks[1] + chunks[2]
        /\ twinOut = out
        /\ twin = gen

\* C2 witness: a multitone block of three samples against blocks of one and
\* two samples, and an FM block of two samples against two blocks of one
\* from a generator that is not fresh.
SplitInvarianceWitness ==
    /\ op = "lead" /\ lag = 0
    /\ \/ chunks = <<1, 2>> /\ cfg.mod_type = "Multitone"
       \/ chunks = <<1, 1>> /\ cfg.mod_type = "FM" /\ calls = 3
                            /\ gen.multitone_phases # << >>

\* C3: determinism: two generators that start in the same state and are fed
\* the same configurations return the same samples and end in the same
\* state, whatever the environment's entropy is when each runs.
Determinism ==
    op \in {"new", "next_sample", "generate_block"} =>
        /\ twin = gen
        /\ twinOut = out

\* C3 witness: the third call of both generators initializes two tones in
\* Random mode.
DeterminismWitness ==
    /\ op = "next_sample" /\ calls = 3
    /\ cfg.mod_type = "Multitone" /\ cfg.multitone_phase = "Random"
    /\ cfg.seed = 1
    /\ Len(gen.multitone_phases) = 2
    /\ gen.multitone_phases[1] # gen.multitone_phases[2]

(***************************************************************************)
(* Properties of the phase accumulators, under Spec.                       *)
(***************************************************************************)
\* The last operation was made of non-multitone next_sample calls.
SingleToneCall == cfg.mod_type \in ModulationType \ {"Multitone"}

\* C4 as stated: after every non-multitone call on a generator created by
\* new(), every per-sample phase increment so far having been below 2*pi
\* (and, read in its favour, not negative), the carrier phase and the
\* modulation phase lie in [0, 2*pi): never negative, never equal to or
\* greater than 2*pi.
PhasesInHalfOpenRange ==
    (SingleToneCall /\ hist.below /\ hist.nonneg) =>
        \A i \in 1..Len(states) :
            /\ 0 <= states[i].phase /\ states[i].phase < TwoPi
            /\ 0 <= states[i].mod_phase /\ states[i].mod_phase < TwoPi

\* C4: after every non-multitone call on a generator created by new(),
\* every per-sample phase increment so far having been in [0, 2*pi), the
\* carrier phase and the modulation phase lie in the closed interval
\* [0, 2*pi]: the wrap subtracts 2*pi only from a phase strictly greater
\* than 2*pi, so a phase that lands on 2*pi stays there.
PhasesInClosedRange ==
    (SingleToneCall /\ hist.below /\ hist.nonneg) =>
        \A i \in 1..Len(states) :
            /\ 0 <= states[i].phase /\ states[i].phase <= TwoPi
            /\ 0 <= states[i].mod_phase /\ states[i].mod_phase <= TwoPi

\* C4 witness: a CW call whose increments were all in [0, 2*pi) has left
\* the carrier phase at 2*pi.
PhasesInClosedRangeWitness ==
    /\ cfg.mod_type = "CW"
    /\ hist.below /\ hist.nonneg
    /\ gen.phase = TwoPi

\* C7: a change of the modulation kind, the carrier frequency or the sample
\* rate between two calls resets neither phase: a non-multitone call
\* advances the carrier phase and the modulation phase from the values the
\* call before left, whatever its configuration was, and a multitone call
\* leaves both where they were.
PhaseContinuity ==
    /\ (op # "new" /\ SingleToneCall) =>
          /\ states[1].mod_phase
                = WrapPhase(pre.mod_phase + ModPhaseIncrement(cfg),
                            round[1].mod_above)
          /\ states[1].phase
                = WrapPhase(pre.phase
                              + PhaseIncrement(cfg, states[1].mod_phase),
                            round[1].phase_above)
    /\ cfg.mod_type = "Multitone" =>
          /\ gen.phase = pre.phase
          /\ gen.mod_phase = pre.mod_phase

\* C7 witness: a non-multitone call whose modulation kind, carrier frequency
\* and sample rate all differ from those of the call before, on a generator
\* whose two phases that call had moved off 0.
PhaseContinuityWitness ==
    /\ SingleToneCall
    /\ changed = {"mod_type", "frequency", "sample_rate"}
    /\ pre.phase # 0 /\ pre.mod_phase # 0
    /\ gen.phase # pre.phase

(***************************************************************************)
(* Properties of the tone phases, under SpecTones.                         *)
(***************************************************************************)
\* C5: whenever a multitone sample is produced, the length of the tone
\* phases equals the tone count of the configuration of that call, after
\* any sequence of earlier calls with any configurations.
TonePhasesLength ==
    cfg.mod_type = "Multitone" =>
        \A i \in 1..Len(states) :
            Len(states[i].multitone_phases) = cfg.multitone_count

\* C5 witness: a multitone call with three tones on a generator that held
\* two tone phases.
TonePhasesLengthWitness ==
    /\ cfg.mod_type = "Multitone"
    /\ Len(pre.multitone_phases) = 2
    /\ cfg.multitone_count = 3
    /\ Len(gen.multitone_phases) = 3

\* The last two multitone operations used different tone counts.
ToneCountChanged ==
    /\ cfg.mod_type = "Multitone"
    /\ Len(tones) >= 2
    /\ tones[Len(tones) - 1] # tones[Len(tones)]

\* C6: when two consecutive multitone calls use different tone counts, the
\* second returns the sample, and leaves the tone phases, that the first
\* multitone call on a fresh generator with its configuration does: no tone
\* phase from before the change survives, also when the count is switched
\* back to an earlier value.
ReinitOnToneCountChange ==
    ToneCountChanged =>
        LET fresh == next_sample(new, cfg, OsEntropy, round[1])
        IN  /\ states[1].multitone_phases = fresh.gen.multitone_phases
            /\ out[1] = fresh.sample

\* C6 witness: the tone count went from 2 to 3 and back to 2 with tones
\* spaced 4 Hz apart, the generator holding phases that differ from the ones
\* the last call started from.
ReinitOnToneCountChangeWitness ==
    /\ ToneCountChanged
    /\ tones = <<2, 3, 2>>
    /\ cfg.multitone_spacing = 4
    /\ pre.multitone_phases # << >>
    /\ inited # << >>
    /\ \A i \in 1..2 : pre.multitone_phases[i] # inited[i]

\* C10: whenever the tone phases are (re-)initialized in Schroeder mode, the
\* phase assigned to tone k (0-indexed) is -pi*k*(k-1)/tone_count before its
\* first advance, for every seed and every history of the generator.
SchroederInitialPhases ==
    (/\ cfg.mod_type = "Multitone"
     /\ cfg.multitone_phase = "Schroeder"
     /\ Len(pre.multitone_phases) # cfg.multitone_count) =>
        /\ Len(inited) = cfg.multitone_count
        /\ \A k \in 0..(cfg.multitone_count - 1) :
              /\ inited[k + 1] * cfg.multitone_count
                    = (0 - PI) * k * (k - 1)
              /\ states[1].multitone_phases[k + 1]
                    = TonePhase(inited[k + 1], k, cfg,
                                (k + 1) \in round[1].tones_above)

\* C10 witness: with seed 1, a generator that held two tone phases has been
\* re-initialized for three tones in Schroeder mode, to 0, 0 and -2*pi/3.
SchroederInitialPhasesWitness ==
    /\ cfg.mod_type = "Multitone"
    /\ cfg.multitone_phase = "Schroeder"
    /\ cfg.seed = 1
    /\ Len(pre.multitone_phases) = 2
    /\ inited = <<0, 0, 0 - 4 * Tick>>

(***************************************************************************)
(* Properties of one block from a fresh generator, under SpecBlock.        *)
(***************************************************************************)
\* The number of samples in a carrier period, when it is a whole number.
SamplesPerPeriod == cfg.sample_rate \div cfg.frequency

\* The last block is CW with a whole number, at least 2, of samples in a
\* carrier period.
WholePeriodCW ==
    /\ cfg.mod_type = "CW"
    /\ cfg.frequency > 0
    /\ cfg.sample_rate % cfg.frequency = 0
    /\ SamplesPerPeriod >= 2

\* C8: CW periodicity: in a block from a fresh generator, with sample_rate
\* / frequency a whole number P >= 2, the carrier phases of samples i and
\* i + P are congruent modulo 2*pi and the two samples are equal.
CWPeriodicity ==
    WholePeriodCW =>
        \A i \in 1..(Len(out) - SamplesPerPeriod) :
            /\ (states[i + SamplesPerPeriod].phase - states[i].phase)
                    % TwoPi = 0
            /\ out[i + SamplesPerPeriod] = out[i]

\* C8 witness: a CW block of two periods of three samples, the phase having
\* been wrapped in the second.
CWPeriodicityWitness ==
    /\ WholePeriodCW
    /\ SamplesPerPeriod = 3
    /\ Len(out) = 6
    /\ states[4].phase < states[3].phase
    /\ out[1] # out[2]

\* The squared magnitude less 1, times Scale^2, of a sample z on the
\* lattice, as <<x, y>> for x + y*sqrt(3).
NormSqLessOne(z) ==
    << z.re[1] * z.re[1] + 3 * z.re[2] * z.re[2]
         + z.im[1] * z.im[1] + 3 * z.im[2] * z.im[2] - Scale * Scale,
       2 * (z.re[1] * z.re[2] + z.im[1] * z.im[2]) >>

\* x + y*sqrt(3) <= 0, for integers x and y.
AtMostZero(v) ==
    CASE v[2] = 0 -> v[1] <= 0
      [] v[2] > 0 -> v[1] <= 0 /\ v[1] * v[1] >= 3 * v[2] * v[2]
      [] v[2] < 0 -> v[1] <= 0 \/ v[1] * v[1] <= 3 * v[2] * v[2]

\* The squared magnitude, times 10^8, of a sample z off the lattice, whose
\* parts are first rounded to 1/10^4: within 10^5 (a thousandth) of the
\* exact value.
NormSqRounded(z) ==
    (z.re[3] \div (Fine \div 10000)) * (z.re[3] \div (Fine \div 10000))
      + (z.im[3] \div (Fine \div 10000)) * (z.im[3] \div (Fine \div 10000))

\* The magnitude of sample z is at most 1: exactly on the lattice, within
\* a thousandth off it.
AtMostOne(z, offTicks) ==
    IF offTicks
    THEN NormSqRounded(z) <= 100000000 + 100000
    ELSE AtMostZero(NormSqLessOne(z))

\* The magnitude of sample z is 1: exactly on the lattice, within a
\* thousandth off it.
IsOne(z, offTicks) ==
    IF offTicks
    THEN /\ NormSqRounded(z) <= 100000000 + 100000
         /\ NormSqRounded(z) >= 100000000 - 100000
    ELSE NormSqLessOne(z) = <<0, 0>>

\* The tone phases all coincide modulo 2*pi.
PhasesCoincide(phases) ==
    \A i, j \in 1..Len(phases) : (phases[i] - phases[j]) % TwoPi = 0

\* The tone phases were drawn in Random mode: they are off the ticks, and
\* so is the sample.
OffTicks(phases) == \E k \in 1..Len(phases) : phases[k] % Tick # 0

\* v is s divided by n: exactly on the lattice, rounded down to 1/Fine off
\* it.
Normalized(v, s, n) ==
    /\ v[1] * n = s[1]
    /\ v[2] * n = s[2]
    /\ s[3] - v[3] * n \in 0..(n - 1)

\* C9: multitone normalization: each multitone sample is the sum of
\* tone_count unit phasors divided by tone_count; its magnitude never
\* exceeds 1, and is 1 exactly when all tone phases coincide modulo 2*pi.
MultitoneNormalization ==
    cfg.mod_type = "Multitone" =>
        \A i \in 1..Len(out) :
            LET phases == states[i].multitone_phases
                n == cfg.multitone_count
            IN  /\ Len(phases) = n
                /\ Normalized(out[i].re, SumCos(phases), n)
                /\ Normalized(out[i].im, SumSin(phases), n)
                /\ AtMostOne(out[i], OffTicks(phases))
                /\ IsOne(out[i], OffTicks(phases))
                      <=> PhasesCoincide(phases)

\* C9 witness: a block of two tones spaced 4 Hz apart with a sample of
\* magnitude 1 and a sample of magnitude below 1, and a block of three
\* tones drawn in Random mode.
MultitoneNormalizationWitness ==
    /\ cfg.mod_type = "Multitone"
    /\ \/ /\ cfg.multitone_count = 2
          /\ cfg.multitone_spacing = 4
          /\ \E i \in 1..Len(out) : NormSqLessOne(out[i]) = <<0, 0>>
          /\ \E i \in 1..Len(out) : NormSqLessOne(out[i]) # <<0, 0>>
       \/ /\ cfg.multitone_count = 3
          /\ Len(out) = 3
          /\ OffTicks(gen.multitone_phases)
          /\ ~IsOne(out[3], TRUE)

(***************************************************************************)
(* The pulse train, under SpecBlock.                                       *)
(***************************************************************************)
\* The number of samples in a modulation period, when it is a whole number.
SamplesPerModPeriod == cfg.sample_rate \div cfg.mod_freq

\* The last block is Pulse with a whole number of samples in a modulation
\* period.
WholePeriodPulse ==
    /\ cfg.mod_type = "Pulse"
    /\ cfg.mod_freq > 0
    /\ cfg.sample_rate % cfg.mod_freq = 0

\* Sample i of the last block is ON: its magnitude is 1.
PulseOn(i) == NormSqLessOne(out[i]) = <<0, 0>>

\* The number of ON samples among the N samples from sample i on.
OnCount(i) ==
    Cardinality({ j \in i..(i + SamplesPerModPeriod - 1) : PulseOn(j) })

\* C11: Pulse duty cycle: with a modulation period of exactly N samples and
\* duty cycle d in [0, 1], a sample is ON exactly when the modulation phase
\* is below d*2*pi (as the f64 values compare, where the exact values are
\* equal) and OFF (zero) otherwise; in every window of N consecutive
\* samples the number of ON samples differs from d*N by at most 1, is 0 for
\* d = 0 and at least N - 1 for d = 1.
PulseDutyCycle ==
    WholePeriodPulse =>
        /\ \A i \in 1..Len(out) :
              /\ PulseOn(i) <=>
                    \/ states[i].mod_phase * Scale
                          < cfg.mod_strength * TwoPi
                    \/ /\ states[i].mod_phase * Scale
                            = cfg.mod_strength * TwoPi
                       /\ round[i].mod_below
              /\ ~PulseOn(i) => out[i] = Complex(Zero, Zero)
        /\ \A i \in 1..(Len(out) - SamplesPerModPeriod + 1) :
              /\ OnCount(i) * Scale - cfg.mod_strength * SamplesPerModPeriod
                    \in (0 - Scale)..Scale
              /\ cfg.mod_strength = 0 => OnCount(i) = 0
              /\ cfg.mod_strength = Scale =>
                    OnCount(i) >= SamplesPerModPeriod - 1

\* C11 witness: a Pulse block with duty cycle 1/2 and a modulation period of
\* 3 samples holds two periods; the one ON sample of the first window is
\* fewer than d*N = 3/2.
PulseDutyCycleWitness ==
    /\ WholePeriodPulse
    /\ SamplesPerModPeriod = 3
    /\ cfg.mod_strength = 24
    /\ Len(out) = 6
    /\ OnCount(1) = 1
    /\ OnCount(4) = 1

(***************************************************************************)
(* Modulation at mod_freq = 0, under Spec.                                 *)
(***************************************************************************)
\* The generator before call i of the last operation.
Before(i) == IF i = 1 THEN pre ELSE states[i - 1]

\* The last operation was made of non-multitone calls with mod_freq = 0.
ConstantModCall == op # "new" /\ SingleToneCall /\ cfg.mod_freq = 0

\* Call i of the last operation, of kind AM, FM or PM, applied the
\* modulation contribution c (in 1/Scale): AM has amplitude factor
\* 1 + mod_strength * c, FM advances the carrier at frequency
\* + mod_strength * c, PM adds mod_strength * c to the emitted angle.
AppliedContribution(i, c) ==
    /\ cfg.mod_type = "AM" =>
          out[i] = from_polar(Scale + (cfg.mod_strength * c) \div Scale,
                              states[i].phase)
    /\ cfg.mod_type = "FM" =>
          states[i].phase
            = WrapPhase(Before(i).phase
                          + (TwoPi * (cfg.frequency
                                      + (cfg.mod_strength * c) \div Scale))
                                \div cfg.sample_rate,
                        round[i].phase_above)
    /\ cfg.mod_type = "PM" =>
          out[i] = from_polar(Scale,
                              states[i].phase
                                + (cfg.mod_strength * c) \div Scale)

\* C12 as stated: with mod_freq = 0 every non-multitone call leaves the
\* modulation phase unchanged and the modulation contribution is the
\* constant cos(0) = 1, on every call and after any sequence of earlier
\* calls.
ConstantModIsOne ==
    ConstantModCall =>
        \A i \in 1..Len(states) :
            /\ states[i].mod_phase = pre.mod_phase
            /\ AppliedContribution(i, Scale)

\* C12: with mod_freq = 0 every non-multitone call leaves a modulation
\* phase below 2*pi unchanged (one that stands at 2*pi and came out above
\* 2.0 * PI is brought back by 2*pi, which does not change its cosine),
\* and the modulation contribution is the constant cos(modulation phase)
\* of the phase the earlier calls left: it is cos(0) = 1 when that phase is
\* a multiple of 2*pi, as on a fresh generator, and only then.
ConstantModIsCosOfPhase ==
    ConstantModCall =>
        \A i \in 1..Len(states) :
            /\ Before(i).mod_phase < TwoPi
                  => states[i].mod_phase = Before(i).mod_phase
            /\ states[i].mod_phase
                  = WrapPhase(Before(i).mod_phase, round[i].mod_above)
            /\ AppliedContribution(i, Rat(Cos(pre.mod_phase)))
            /\ pre.mod_phase % TwoPi = 0 => AppliedContribution(i, Scale)
            /\ (cfg.mod_type \in {"AM", "FM", "PM"}
                    /\ pre.mod_phase % TwoPi # 0)
                  => ~AppliedContribution(i, Scale)

\* C12 witness: an AM call with mod_freq = 0 and index 1/2 on a generator
\* whose modulation phase an earlier call left at pi has amplitude factor
\* 1 + 1/2 * cos(pi) = 1/2.
ConstantModIsCosOfPhaseWitness ==
    /\ ConstantModCall
    /\ cfg.mod_type = "AM"
    /\ pre.mod_phase = PI
    /\ out[1] = from_polar(24, gen.phase)
    /\ op = "next_sample"

(***************************************************************************)
(* Random initialization, under SpecTones.                                 *)
(***************************************************************************)
\* The last operation (re-)initialized the tone phases in Random mode.
RandomInit ==
    /\ cfg.mod_type = "Multitone"
    /\ cfg.multitone_phase = "Random"
    /\ Len(pre.multitone_phases) # cfg.multitone_count

\* C13: every (re-)initialization in Random mode assigns the phase sequence
\* that its seed and tone count alone determine: the one a fresh generator
\* is assigned with that configuration, under any entropy of the
\* environment, whatever was initialized before; the phases are drawn in
\* tone order from one stream (those for one tone more start with them)
\* and each lies in [0, 2*pi).
RandomInitReproducible ==
    RandomInit =>
        /\ Len(inited) = cfg.multitone_count
        /\ \A k \in 1..cfg.multitone_count :
              /\ 0 <= inited[k] /\ inited[k] < TwoPi
              /\ states[1].multitone_phases[k]
                    = TonePhase(inited[k], k - 1, cfg,
                                k \in round[1].tones_above)
        /\ \A e \in Entropy :
              LET fresh == next_sample(new, cfg, e, round[1])
                  more == [cfg EXCEPT
                             !.multitone_count = cfg.multitone_count + 1]
              IN  /\ states[1].multitone_phases = fresh.gen.multitone_phases
                  /\ out[1] = fresh.sample
                  /\ inited = SubSeq(InitPhases(more, e), 1,
                                     cfg.multitone_count)

\* C13 witness: the third initialization of a generator, after two and
\* three tones, assigns two tones the first two draws of seed 1, which are
\* not those of seed 0.
RandomInitReproducibleWitness ==
    /\ RandomInit
    /\ tones = <<2, 3, 2>>
    /\ cfg.seed = 1
    /\ inited = SubSeq(Draws[1], 1, 2)
    /\ inited # SubSeq(Draws[0], 1, 2)

(***************************************************************************)
(* FM deviation, under Spec.                                               *)
(***************************************************************************)
\* The last operation was made of FM calls whose instantaneous frequency
\* stays in [0, sample_rate): deviation at most the carrier frequency, and
\* carrier frequency plus deviation below the sample rate.
ForwardFMCall ==
    /\ op # "new"
    /\ cfg.mod_type = "FM"
    /\ cfg.mod_strength <= cfg.frequency
    /\ cfg.frequency + cfg.mod_strength < cfg.sample_rate

\* The angle d, as a frequency d * sample_rate / (2*pi), lies within the
\* deviation of the carrier frequency.
WithinDeviation(d) ==
    /\ d * cfg.sample_rate >= TwoPi * (cfg.frequency - cfg.mod_strength)
    /\ d * cfg.sample_rate <= TwoPi * (cfg.frequency + cfg.mod_strength)

\* The carrier phase after call i of the last operation less the carrier
\* phase before it.
PhaseDifference(i) == states[i].phase - Before(i).phase

\* C14 as stated: on every FM call the frequency recovered from the carrier
\* phase after the call less the carrier phase before it lies within the
\* deviation of the carrier frequency.
RawDifferenceWithinDeviation ==
    ForwardFMCall =>
        \A i \in 1..Len(states) : WithinDeviation(PhaseDifference(i))

\* C14: on every FM call whose instantaneous frequency stays in
\* [0, sample_rate), the frequency recovered from the carrier phase
\* difference modulo 2*pi lies within the deviation of the carrier
\* frequency: the difference itself on a call that did not wrap the phase,
\* the difference plus 2*pi on a call that did (the stored phase went
\* down), where the difference itself gives a frequency below the range.
UnwrappedDifferenceWithinDeviation ==
    ForwardFMCall =>
        \A i \in 1..Len(states) :
            /\ WithinDeviation(PhaseDifference(i) % TwoPi)
            /\ PhaseDifference(i) >= 0 => WithinDeviation(PhaseDifference(i))
            /\ PhaseDifference(i) < 0 =>
                  /\ WithinDeviation(PhaseDifference(i) + TwoPi)
                  /\ ~WithinDeviation(PhaseDifference(i))

\* C14 witness: an FM call at 3 Hz with deviation 3 Hz, 12 Hz sample rate
\* and mod_freq 6 Hz brings the modulation phase to 2*pi, runs at 6 Hz and
\* wraps the carrier phase from 3*pi/2 to pi/2.
UnwrappedDifferenceWithinDeviationWitness ==
    /\ ForwardFMCall
    /\ cfg.frequency = 3 /\ cfg.sample_rate = 12 /\ cfg.mod_freq = 6
    /\ gen.mod_phase = TwoPi
    /\ pre.phase = 9 * Tick
    /\ gen.phase = 3 * Tick
    /\ op = "next_sample"

(***************************************************************************)
(* The range of the tone phases, under SpecBlock.                          *)
(***************************************************************************)
\* The last block is multitone with every tone frequency in
\* [0, sample_rate): the lowest tone, at frequency - (n - 1) / 2 * spacing,
\* is not negative and the highest is below the sample rate.
ForwardTones ==
    /\ cfg.mod_type = "Multitone"
    /\ 2 * cfg.frequency
         - (cfg.multitone_count - 1) * cfg.multitone_spacing >= 0
    /\ 2 * cfg.frequency
         + (cfg.multitone_count - 1) * cfg.multitone_spacing
            < 2 * cfg.sample_rate

\* C15 as stated: after every multitone call, for every phase mode and
\* spacing, each tone phase lies in [0, 2*pi) after its update.
TonePhasesInHalfOpenRange ==
    ForwardTones =>
        \A i \in 1..Len(states) :
            \A k \in 1..Len(states[i].multitone_phases) :
                /\ 0 <= states[i].multitone_phases[k]
                /\ states[i].multitone_phases[k] < TwoPi

\* C15: after every multitone call of a block from a fresh generator whose
\* tone frequencies are all in [0, sample_rate), each tone phase is at most
\* 2*pi after its update (2*pi itself is kept); it is not negative in Zero
\* and Random mode, and in Schroeder mode tone k (0-indexed) is not below
\* its initial phase -pi*k*(k-1)/tone_count, which is negative from k = 2
\* on and to which 2*pi is never added.
TonePhasesRange ==
    ForwardTones =>
        \A i \in 1..Len(states) :
            \A k \in 1..Len(states[i].multitone_phases) :
                LET phase == states[i].multitone_phases[k]
                IN  /\ phase <= TwoPi
                    /\ cfg.multitone_phase \in {"Zero", "Random"} =>
                          phase >= 0
                    /\ cfg.multitone_phase = "Schroeder" =>
                          phase * cfg.multitone_count
                            >= (0 - PI) * (k - 1) * (k - 2)

\* C15 witness: in a block of three tones at 3 Hz in Schroeder mode the
\* third tone has phase -pi/6 after the first call and the first tone has
\* phase 2*pi after the fourth.
TonePhasesRangeWitness ==
    /\ ForwardTones
    /\ cfg.multitone_phase = "Schroeder"
    /\ cfg.multitone_count = 3
    /\ Len(states) >= 4
    /\ states[1].multitone_phases[3] = 0 - Tick
    /\ states[4].multitone_phases[1] = TwoPi

(***************************************************************************)
(* The single-step wrap, under SpecBlock.                                  *)
(***************************************************************************)
\* The sum exceeds 2*pi: its exact value does, or is 2*pi with an f64 value
\* above 2.0 * PI.
Exceeds(sum, above) == sum > TwoPi \/ (sum = TwoPi /\ above)

\* after is old advanced by inc with the single-step wrap: old + inc when
\* that does not exceed 2*pi, old + inc - 2*pi when it does.
SingleStep(old, inc, after, above) ==
    /\ ~Exceeds(old + inc, above) => after = old + inc
    /\ Exceeds(old + inc, above) => after = old + inc - TwoPi

\* Line 217 for tone k (0-indexed): 2*pi * tone_freq / sample_rate, the
\* tone frequency being frequency + (k - (n - 1) / 2) * spacing.
ToneIncrement(k) ==
    (TwoPi * (2 * cfg.frequency
              + (2 * k - (cfg.multitone_count - 1)) * cfg.multitone_spacing))
        \div (2 * cfg.sample_rate)

\* The tone phases call i of the last block started from: the ones just
\* initialized for the first call of a fresh generator.
TonesBefore(i) == IF i = 1 THEN inited ELSE states[i - 1].multitone_phases

\* C16: every phase update is a single-step wrap: the modulation phase, the
\* carrier phase and each tone phase become old + increment when that sum
\* does not exceed 2*pi and old + increment - 2*pi when it does; 2*pi is
\* subtracted at most once and never added, so an increment of 2*pi or
\* more, or a negative one, is not brought back into range.
SingleStepWrap ==
    op # "new" =>
        \A i \in 1..Len(states) :
            /\ SingleToneCall =>
                  /\ SingleStep(Before(i).mod_phase, ModPhaseIncrement(cfg),
                                states[i].mod_phase, round[i].mod_above)
                  /\ SingleStep(Before(i).phase,
                                PhaseIncrement(cfg, states[i].mod_phase),
                                states[i].phase, round[i].phase_above)
            /\ cfg.mod_type = "Multitone" =>
                  \A k \in 1..cfg.multitone_count :
                      SingleStep(TonesBefore(i)[k], ToneIncrement(k - 1),
                                 states[i].multitone_phases[k],
                                 k \in round[i].tones_above)

\* C16 witness: CW at twice the sample rate advances the carrier phase by
\* 4*pi a call; the second call leaves it at 4*pi, out of range, and the
\* third at 6*pi.
SingleStepWrapWitness ==
    /\ cfg.mod_type = "CW"
    /\ PhaseIncrement(cfg, 0) = 2 * TwoPi
    /\ Len(states) >= 3
    /\ states[1].phase = TwoPi
    /\ states[2].phase = 2 * TwoPi
    /\ states[3].phase = 3 * TwoPi

(***************************************************************************)
(* Tone phases that are not re-initialized, under SpecTones.               *)
(***************************************************************************)
\* The last operation was multitone on a generator that held as many tone
\* phases as its tone count.
SameToneCount ==
    /\ op # "new"
    /\ cfg.mod_type = "Multitone"
    /\ Len(pre.multitone_phases) = cfg.multitone_count

\* C17: re-initialization is triggered by a length mismatch only: a
\* multitone call with the tone count of the phases the generator holds
\* advances those phases, whatever its phase mode and seed are, so a new
\* mode or seed changes neither the sample nor the state the call leaves.
NoReinitOnSameToneCount ==
    SameToneCount =>
        /\ \A k \in 1..cfg.multitone_count :
              SingleStep(pre.multitone_phases[k], ToneIncrement(k - 1),
                         states[1].multitone_phases[k],
                         k \in round[1].tones_above)
        /\ \A ph \in MultitonePhase, sd \in {0, 1}, e \in Entropy :
              LET other == [cfg EXCEPT !.multitone_phase = ph, !.seed = sd]
                  r == next_sample(pre, other, e, round[1])
              IN  /\ r.sample = out[1]
                  /\ r.gen = states[1]

\* C17 witness: a call in Schroeder mode with three tones spaced 4 Hz apart
\* on a generator whose three tone phases were initialized in Zero mode and
\* advanced once: they advance once more, the third from 7*pi/6 to pi/3.
NoReinitOnSameToneCountWitness ==
    /\ SameToneCount
    /\ tones = <<3, 3>>
    /\ cfg.multitone_phase = "Schroeder"
    /\ cfg.multitone_spacing = 4
    /\ pre.multitone_phases = <<0 - Tick, 3 * Tick, 7 * Tick>>
    /\ gen.multitone_phases = <<0 - 2 * Tick, 6 * Tick, 2 * Tick>>
    /\ op = "next_sample"

(***************************************************************************)
(* The two families of calls, under Spec.                                  *)
(***************************************************************************)
\* C18: the two families of calls touch disjoint state: a multitone call
\* leaves the carrier phase and the modulation phase unchanged and a
\* non-multitone call leaves the tone phases unchanged; neither reads the
\* state of the other, so after interleaving each family resumes from the
\* phases its own last call left.
DisjointState ==
    op # "new" =>
        /\ cfg.mod_type = "Multitone" =>
              /\ \A i \in 1..Len(states) :
                    /\ states[i].phase = pre.phase
                    /\ states[i].mod_phase = pre.mod_phase
              /\ LET r == next_sample([pre EXCEPT !.phase = 0,
                                                  !.mod_phase = 0],
                                      cfg, OsEntropy, round[1])
                 IN  /\ r.sample = out[1]
                     /\ r.gen.multitone_phases = states[1].multitone_phases
        /\ SingleToneCall =>
              /\ \A i \in 1..Len(states) :
                    states[i].multitone_phases = pre.multitone_phases
              /\ LET r == next_sample([pre EXCEPT !.multitone_phases = << >>],
                                      cfg, OsEntropy, round[1])
                 IN  /\ r.sample = out[1]
                     /\ r.gen.phase = states[1].phase
                     /\ r.gen.mod_phase = states[1].mod_phase

\* C18 witness: a multitone call, a non-multitone call and a multitone call
\* with the same tone count: the third advances the tone phases the first
\* left and leaves the carrier and modulation phases of the second.
DisjointStateWitness ==
    /\ cfg.mod_type = "Multitone"
    /\ calls = 3
    /\ Len(tones) = 2
    /\ Len(pre.multitone_phases) = cfg.multitone_count
    /\ pre.phase # 0 /\ pre.mod_phase # 0
    /\ gen.phase = pre.phase /\ gen.mod_phase = pre.mod_phase
    /\ gen.multitone_phases # pre.multitone_phases

(***************************************************************************)
(* The carrier phase of the kinds other than FM, under Spec.               *)
(***************************************************************************)
\* The kinds that leave the instantaneous frequency at the carrier
\* frequency.
FixedFrequencyKinds == {"CW", "AM", "PM", "Pulse"}

\* C19: only FM alters the carrier phase accumulation: from the same
\* starting generator, with the same carrier frequency and sample rate, the
\* stored carrier phase after every call is the same for CW, AM, PM and
\* Pulse whatever mod_freq and mod_strength are; the PM deviation
\* mod_strength * cos(modulation phase) is added to the angle of the emitted
\* sample only.
CarrierPhaseIgnoresModulation ==
    (op # "new" /\ cfg.mod_type \in FixedFrequencyKinds) =>
        /\ \A mt \in FixedFrequencyKinds :
              \A mf \in ModFreqs(mt, cfg.sample_rate), ms \in Strengths(mt) :
                  LET other == [cfg EXCEPT !.mod_type = mt, !.mod_freq = mf,
                                           !.mod_strength = ms]
                      r == generate_block(pre, other, Len(states), OsEntropy,
                                          round)
                  IN  \A i \in 1..Len(states) :
                          r.states[i].phase = states[i].phase
        /\ cfg.mod_type = "PM" =>
              \A i \in 1..Len(states) :
                  /\ SingleStep(Before(i).phase,
                                (TwoPi * cfg.frequency) \div cfg.sample_rate,
                                states[i].phase, round[i].phase_above)
                  /\ out[i] = from_polar(Scale,
                        states[i].phase
                          + (cfg.mod_strength
                               * Rat(Cos(states[i].mod_phase))) \div Scale)

\* C19 witness: a PM call on a generator whose phases earlier calls moved
\* off 0 emits a sample whose angle is not the stored carrier phase, and
\* stores the carrier phase a CW call would.
CarrierPhaseIgnoresModulationWitness ==
    /\ cfg.mod_type = "PM"
    /\ calls = 3
    /\ op = "next_sample"
    /\ pre.phase # 0 /\ pre.mod_phase # 0
    /\ out[1] # from_polar(Scale, gen.phase)
    /\ gen.phase = WrapPhase(pre.phase
                               + (TwoPi * cfg.frequency) \div cfg.sample_rate,
                             round[1].phase_above)
    /\ gen.phase # pre.phase

=============================================================================
